---- MODULE Spec2Model ----
(***************************************************************************)
(* Relevance pipeline of the persona-driven document intelligence system:  *)
(* keyword extraction (keyword_analyzer.py), page segmentation, scoring    *)
(* and ranking (section_ranker.py), extractive summaries                   *)
(* (subsection_analyzer.py) and the pipeline that wires them (main.py).    *)
(*                                                                         *)
(* A Python str is modelled as its run-length encoding: a sequence of runs *)
(* <<c, n>>, n >= 1 copies of the character c, no two adjacent runs of the *)
(* same character.  The encoding is exact (one text, one encoding), and    *)
(* lets pages of more than 1000 characters be handled run by run.          *)
(***************************************************************************)
EXTENDS Integers, Sequences, FiniteSets, TLC

(***************************************************************************)
(* Characters and character classes (Python str / re semantics).           *)
(***************************************************************************)
LowerAlpha == <<"a","b","c","d","e","f","g","h","i","j","k","l","m",
                "n","o","p","q","r","s","t","u","v","w","x","y","z">>
UpperAlpha == <<"A","B","C","D","E","F","G","H","I","J","K","L","M",
                "N","O","P","Q","R","S","T","U","V","W","X","Y","Z">>

LowerChars == {LowerAlpha[i] : i \in DOMAIN LowerAlpha}
UpperChars == {UpperAlpha[i] : i \in DOMAIN UpperAlpha}
DigitChars == {"0","1","2","3","4","5","6","7","8","9"}
\* \s of re, and the characters str.strip() removes
SpaceChars == {" ", "\n", "\t"}
\* the class [.!?]
TerminatorChars == {".", "!", "?"}
\* \w of re
WordChars == LowerChars \cup UpperChars \cup DigitChars \cup {"_"}

IsLower(c) == c \in LowerChars
IsUpper(c) == c \in UpperChars
IsSpace(c) == c \in SpaceChars

\* str.lower() on one character
LowerChar(c) ==
    IF IsUpper(c)
    THEN LowerAlpha[CHOOSE i \in DOMAIN UpperAlpha : UpperAlpha[i] = c]
    ELSE c

(***************************************************************************)
(* Texts.                                                                  *)
(***************************************************************************)
Ch(r) == r[1]
Cnt(r) == r[2]

Min(S) == CHOOSE x \in S : \A y \in S : x <= y
Max(S) == CHOOSE x \in S : \A y \in S : x >= y

\* ns[lo] + ... + ns[hi]
RECURSIVE SumSeq(_, _, _)
SumSeq(ns, lo, hi) ==
    IF lo > hi THEN 0
    ELSE IF lo = hi THEN ns[lo]
    ELSE LET mid == (lo + hi) \div 2
         IN SumSeq(ns, lo, mid) + SumSeq(ns, mid + 1, hi)

\* the number of characters in runs lo..hi of t
RunsLen(t, lo, hi) == SumSeq([i \in DOMAIN t |-> Cnt(t[i])], lo, hi)

\* len(t)
TLen(t) == RunsLen(t, 1, Len(t))

\* c * n
Rep(c, n) == IF n = 0 THEN <<>> ELSE <<<<c, n>>>>
\* a + b, of two texts
Cat(a, b) ==
    IF a = <<>> THEN b
    ELSE IF b = <<>> THEN a
    ELSE IF Ch(a[Len(a)]) = Ch(b[1])
         THEN SubSeq(a, 1, Len(a) - 1)
              \o <<<<Ch(b[1]), Cnt(a[Len(a)]) + Cnt(b[1])>>>>
              \o Tail(b)
         ELSE a \o b

\* the canonical encoding of runs lo..hi of a sequence of runs: empty runs
\* dropped, adjacent runs of one character merged
RECURSIVE NormRange(_, _, _)
NormRange(t, lo, hi) ==
    IF lo > hi THEN <<>>
    ELSE IF lo = hi THEN (IF Cnt(t[lo]) = 0 THEN <<>> ELSE <<t[lo]>>)
    ELSE LET mid == (lo + hi) \div 2
         IN Cat(NormRange(t, lo, mid), NormRange(t, mid + 1, hi))
Norm(t) == NormRange(t, 1, Len(t))

\* the text of a sequence of characters
Str(s) == Norm([i \in DOMAIN s |-> <<s[i], 1>>])

RECURSIVE CatAll(_)
CatAll(ts) == IF ts = <<>> THEN <<>> ELSE Cat(Head(ts), CatAll(Tail(ts)))

\* runs i..j of t; empty when i > j
Runs(t, i, j) == IF i > j THEN <<>> ELSE SubSeq(t, i, j)

\* str.lower()
Lower(t) == Norm([i \in DOMAIN t |-> <<LowerChar(Ch(t[i])), Cnt(t[i])>>])

\* the first run index >= i whose character is in the class, Len(t)+1 if none
FindClass(t, i, class) ==
    Min({j \in i..Len(t) : Ch(t[j]) \in class} \cup {Len(t) + 1})
\* the first run index >= i whose character is not in the class, Len(t)+1 if none
SkipClass(t, i, class) ==
    Min({j \in i..Len(t) : Ch(t[j]) \notin class} \cup {Len(t) + 1})
\* the last run index <= j whose character is not in the class, 0 if none
LastNotIn(t, j, class) ==
    Max({i \in 1..j : Ch(t[i]) \notin class} \cup {0})

\* str.strip()
Strip(t) == Runs(t, SkipClass(t, 1, SpaceChars), LastNotIn(t, Len(t), SpaceChars))

(***************************************************************************)
(* re.split: the pieces of t between the leftmost non-overlapping matches. *)
(***************************************************************************)
\* re.split(r'\n\s*\n', t) from run start on, the scan being at run from.
\* A match starts at the first newline of a block of whitespace and, \s*
\* being greedy, ends at the last newline of the block; a block with a
\* single newline holds no match.
RECURSIVE SplitBlankFrom(_, _, _)
SplitBlankFrom(t, start, from) ==
    LET i == FindClass(t, from, {"\n"})
    IN IF i > Len(t) THEN <<Runs(t, start, Len(t))>>
       ELSE LET e == SkipClass(t, i, SpaceChars)
                l == Max({j \in i..(e - 1) : Ch(t[j]) = "\n"})
            IN IF l = i /\ Cnt(t[i]) = 1
               THEN SplitBlankFrom(t, start, e)
               ELSE <<Runs(t, start, i - 1)>> \o SplitBlankFrom(t, l + 1, l + 1)
SplitBlank(t) == SplitBlankFrom(t, 1, 1)

\* re.split(r'[.!?]+\s+', t).  A match is a whole block of terminators
\* followed by a whole non-empty block of whitespace.
RECURSIVE SplitTermFrom(_, _, _)
SplitTermFrom(t, start, from) ==
    LET i == FindClass(t, from, TerminatorChars)
    IN IF i > Len(t) THEN <<Runs(t, start, Len(t))>>
       ELSE LET e1 == SkipClass(t, i, TerminatorChars)
                e2 == SkipClass(t, e1, SpaceChars)
            IN IF e2 > e1
               THEN <<Runs(t, start, i - 1)>> \o SplitTermFrom(t, e2, e2)
               ELSE SplitTermFrom(t, start, e1)
SplitTerm(t) == SplitTermFrom(t, 1, 1)

(***************************************************************************)
(* str.count(k): the leftmost non-overlapping occurrences of k in t.       *)
(***************************************************************************)
\* the offset (0-based) at which run j of t starts
RunStart(t, j) == RunsLen(t, 1, j - 1)

\* k (two runs or more) occurs in t with its first run ending run j of t
OccursAtRun(t, k, j) ==
    LET m == Len(k)
    IN /\ j + m - 1 <= Len(t)
       /\ Ch(t[j]) = Ch(k[1]) /\ Cnt(t[j]) >= Cnt(k[1])
       /\ Ch(t[j + m - 1]) = Ch(k[m]) /\ Cnt(t[j + m - 1]) >= Cnt(k[m])
       /\ \A x \in 2..(m - 1) : t[j + x - 1] = k[x]
\* the offset at which that occurrence starts
OccStart(t, k, j) == RunStart(t, j) + Cnt(t[j]) - Cnt(k[1])

\* occurrences of k counted from run from on, none starting before offset pos
RECURSIVE CountFrom(_, _, _, _)
CountFrom(t, k, from, pos) ==
    LET j == Min({x \in from..Len(t) : OccursAtRun(t, k, x) /\ OccStart(t, k, x) >= pos}
                 \cup {Len(t) + 1})
    IN IF j > Len(t) THEN 0
       ELSE 1 + CountFrom(t, k, j + 1, OccStart(t, k, j) + TLen(k))

\* occurrences of a one-run k = c * q: each run of c holds n \div q of them
CountInRuns(t, c, q) ==
    SumSeq([i \in DOMAIN t |-> IF Ch(t[i]) = c THEN Cnt(t[i]) \div q ELSE 0], 1, Len(t))

Count(t, k) ==
    IF k = <<>> THEN TLen(t) + 1
    ELSE IF Len(k) = 1 THEN CountInRuns(t, Ch(k[1]), Cnt(k[1]))
    ELSE CountFrom(t, k, 1, 0)

\* k in t
Contains(t, k) == Count(t, k) > 0

\* ' '.join(ts)
RECURSIVE Join(_)
Join(ts) ==
    IF ts = <<>> THEN <<>>
    ELSE IF Len(ts) = 1 THEN Head(ts)
    ELSE CatAll(<<Head(ts), Rep(" ", 1), Join(Tail(ts))>>)

(***************************************************************************)
(* SectionRanker (section_ranker.py): segmentation.                        *)
(***************************************************************************)
min_section_length == 100
max_sections_per_page == 5
\* "Too long to be a header"
MaxHeaderLength == 200
\* the page length above which a page without sections is split by length
FallbackLength == 1000
\* _split_by_length's target_length
target_length == 800

\* i after an optional single "." at run i: \.? takes one dot, and a run of
\* two dots or more leaves a dot where \s is required
AfterOptionalDot(t, i) ==
    IF i <= Len(t) /\ t[i] = <<".", 1>> THEN i + 1 ELSE i

\* \s+[A-Z] matches at run i
SpacesThenUpper(t, i) ==
    LET u == SkipClass(t, i, SpaceChars)
    IN u > i /\ u <= Len(t) /\ IsUpper(Ch(t[u]))

\* r'^\d+\.?\s+[A-Z]'   "1. Introduction"
NumberedHeader(t) ==
    LET d == SkipClass(t, 1, DigitChars)
    IN d > 1 /\ SpacesThenUpper(t, AfterOptionalDot(t, d))

\* r'^[A-Z][A-Z\s]{2,}$'   "INTRODUCTION"
UpperHeader(t) ==
    /\ t # <<>> /\ IsUpper(Ch(t[1]))
    /\ \A i \in DOMAIN t : Ch(t[i]) \in UpperChars \cup SpaceChars
    /\ TLen(t) >= 3

\* ([A-Z][a-z]+)(\s[A-Z][a-z]+)*$ from run i: one capital, lower-case
\* letters, then the end or one whitespace character and the next word
RECURSIVE TitleWordsFrom(_, _)
TitleWordsFrom(t, i) ==
    /\ i + 1 <= Len(t)
    /\ IsUpper(Ch(t[i])) /\ Cnt(t[i]) = 1
    /\ IsLower(Ch(t[i + 1]))
    /\ LET e == SkipClass(t, i + 1, LowerChars)
       IN \/ e > Len(t)
          \/ /\ IsSpace(Ch(t[e])) /\ Cnt(t[e]) = 1
             /\ TitleWordsFrom(t, e + 1)

\* r'^[A-Z][a-z]+(\s[A-Z][a-z]+)*$'   "Introduction"
TitleHeader(t) == TitleWordsFrom(t, 1)

\* r'^\d+\.\d+\.?\s+[A-Z]'   "1.1 Background"
SubNumberedHeader(t) ==
    LET d1 == SkipClass(t, 1, DigitChars)
        d2 == SkipClass(t, d1 + 1, DigitChars)
    IN /\ d1 > 1 /\ d1 <= Len(t) /\ t[d1] = <<".", 1>>
       /\ d2 > d1 + 1
       /\ SpacesThenUpper(t, AfterOptionalDot(t, d2))

_is_section_header(text) ==
    IF TLen(text) > MaxHeaderLength THEN FALSE
    ELSE LET t == Strip(text)
         IN NumberedHeader(t) \/ UpperHeader(t) \/ TitleHeader(t) \/ SubNumberedHeader(t)

\* the loop of _split_by_length over sentences[i..], with the sections
\* emitted so far and the section under construction
RECURSIVE SplitByLengthLoop(_, _, _, _)
SplitByLengthLoop(sentences, i, sections, current_section) ==
    IF i > Len(sentences)
    THEN IF current_section # <<>>
         THEN Append(sections, Strip(current_section))
         ELSE sections
    ELSE LET sentence == sentences[i]
         IN IF TLen(current_section) + TLen(sentence) > target_length
               /\ current_section # <<>>
            THEN SplitByLengthLoop(sentences, i + 1,
                                   Append(sections, Strip(current_section)),
                                   Cat(sentence, Str(<<".", " ">>)))
            ELSE SplitByLengthLoop(sentences, i + 1, sections,
                                   CatAll(<<current_section, sentence, Str(<<".", " ">>)>>))

_split_by_length(text) == SplitByLengthLoop(SplitTerm(text), 1, <<>>, <<>>)

\* the loop of _split_into_sections over paragraphs[i..]
RECURSIVE AccumulateSections(_, _, _, _)
AccumulateSections(paragraphs, i, sections, current_section) ==
    IF i > Len(paragraphs)
    THEN IF current_section # <<>>
         THEN Append(sections, Strip(current_section))
         ELSE sections
    ELSE LET paragraph == Strip(paragraphs[i])
         IN IF paragraph = <<>>
            THEN AccumulateSections(paragraphs, i + 1, sections, current_section)
            ELSE IF _is_section_header(paragraph)
            THEN AccumulateSections(paragraphs, i + 1,
                     IF current_section # <<>>
                     THEN Append(sections, Strip(current_section))
                     ELSE sections,
                     Cat(paragraph, Rep("\n", 2)))
            ELSE AccumulateSections(paragraphs, i + 1, sections,
                     CatAll(<<current_section, paragraph, Rep("\n", 2)>>))

\* the last n of xs instead of the first
TakeLast(xs, n) == IF Len(xs) <= n THEN xs ELSE SubSeq(xs, Len(xs) - n + 1, Len(xs))

\* sections[:n]
Take(xs, n) == IF Len(xs) <= n THEN xs ELSE SubSeq(xs, 1, n)

_split_into_sections(page_text) ==
    IF page_text = <<>> THEN <<>>
    ELSE LET sections == AccumulateSections(SplitBlank(page_text), 1, <<>>, <<>>)
         IN Take(IF Len(sections) <= 1 /\ TLen(page_text) > FallbackLength
                 THEN _split_by_length(page_text)
                 ELSE sections,
                 max_sections_per_page)

(***************************************************************************)
(* SectionRanker: scoring and titles.  A relevance score, a float rounded  *)
(* to 3 decimals, is modelled by its number of thousandths.                *)
(***************************************************************************)
\* keyword_weights.get(keyword, 1)
Get(keyword_weights, keyword) ==
    IF keyword \in DOMAIN keyword_weights THEN keyword_weights[keyword] ELSE 1

\* the loop over keywords[i..], score being the running total
RECURSIVE ScoreLoop(_, _, _, _, _)
ScoreLoop(text_lower, keywords, keyword_weights, i, score) ==
    IF i > Len(keywords) THEN score
    ELSE LET keyword == keywords[i]
             count == Count(text_lower, Lower(keyword))
         IN ScoreLoop(text_lower, keywords, keyword_weights, i + 1,
                      IF count > 0
                      THEN score + count * Get(keyword_weights, keyword) * TLen(keyword)
                      ELSE score)

\* the score not normalized by the section length
RoundedWithoutLength(score, length) == score * 1000

\* round(score / (length / 1000), 3) in thousandths: score * 10^6 / length
\* rounded to the nearest integer, a half to the even one
RoundedPerThousand(score, length) ==
    LET q == (score * 1000000) \div length
        r == (score * 1000000) % length
    IN IF 2 * r < length THEN q
       ELSE IF 2 * r > length THEN q + 1
       ELSE IF q % 2 = 0 THEN q ELSE q + 1

\* the guard returning 1.0 where the code returns 0.0
ScoreDefaultsToOne(section_text, keywords, keyword_weights) ==
    IF section_text = <<>> \/ keywords = <<>> THEN 1000
    ELSE RoundedPerThousand(
             ScoreLoop(Lower(section_text), keywords, keyword_weights, 1, 0),
             TLen(section_text))

_calculate_relevance_score(section_text, keywords, keyword_weights) ==
    IF section_text = <<>> \/ keywords = <<>> THEN 0
    ELSE RoundedPerThousand(
             ScoreLoop(Lower(section_text), keywords, keyword_weights, 1, 0),
             TLen(section_text))

\* section_text.split('\n')[:n] from run start on: (up to) n lines
RECURSIVE FirstLinesFrom(_, _, _)
FirstLinesFrom(t, start, n) ==
    IF n = 0 THEN <<>>
    ELSE LET i == FindClass(t, start, {"\n"})
         IN IF i > Len(t) THEN <<Runs(t, start, Len(t))>>
            ELSE <<Runs(t, start, i - 1)>> \o
                 (IF Cnt(t[i]) - 1 >= n - 1
                  THEN [x \in 1..(n - 1) |-> <<>>]
                  ELSE [x \in 1..(Cnt(t[i]) - 1) |-> <<>>]
                       \o FirstLinesFrom(t, i + 1, n - Cnt(t[i])))
FirstLines(t, n) == FirstLinesFrom(t, 1, n)

IsCased(c) == IsLower(c) \/ IsUpper(c)
\* str.isupper(): a cased character, and no lower-case one
IsUpperStr(t) ==
    /\ \E i \in DOMAIN t : IsUpper(Ch(t[i]))
    /\ \A i \in DOMAIN t : ~IsLower(Ch(t[i]))
\* str.istitle(): capitals only after uncased characters, lower-case
\* letters only after cased ones, and a cased character
IsTitleStr(t) ==
    /\ \E i \in DOMAIN t : IsCased(Ch(t[i]))
    /\ \A i \in DOMAIN t :
          /\ IsUpper(Ch(t[i])) => Cnt(t[i]) = 1 /\ (i > 1 => ~IsCased(Ch(t[i - 1])))
          /\ IsLower(Ch(t[i])) => i > 1 /\ IsCased(Ch(t[i - 1]))

\* t[:max_length]
Prefix(t, max_length) ==
    IF TLen(t) <= max_length THEN t
    ELSE LET j == Min({x \in DOMAIN t : RunsLen(t, 1, x) >= max_length})
         IN Runs(t, 1, j - 1) \o Rep(Ch(t[j]), max_length - RunsLen(t, 1, j - 1))

\* re.split(r'[.!?]', t)[0]
BeforeTerminator(t) ==
    Runs(t, 1, FindClass(t, 1, TerminatorChars) - 1)

\* _extract_section_title's max_length
max_title_length == 100

\* the first of lines[i..] that looks like a title, <<>> if none does
RECURSIVE FirstTitleLine(_, _)
FirstTitleLine(lines, i) ==
    IF i > Len(lines) THEN <<>>
    ELSE LET line == Strip(lines[i])
         IN IF /\ line # <<>>
               /\ TLen(line) < max_title_length
               /\ (IsUpperStr(line) \/ IsTitleStr(line) \/ NumberedHeader(line))
            THEN line
            ELSE FirstTitleLine(lines, i + 1)

_extract_section_title(section_text) ==
    LET title == FirstTitleLine(FirstLines(section_text, 3), 1)
        first_sentence == Strip(BeforeTerminator(section_text))
    IN IF title # <<>> THEN title
       ELSE IF TLen(first_sentence) > max_title_length
            THEN Cat(Prefix(first_sentence, max_title_length), Rep(".", 3))
            ELSE first_sentence

(***************************************************************************)
(* SectionRanker.rank_sections.  extracted_texts, a dict in insertion      *)
(* order, is a sequence of records [filename, pages]; keywords is the      *)
(* record extract_keywords returns.                                        *)
(***************************************************************************)
\* a page value that is not a str (an int, say): re.split raises TypeError on it
NotAStr == <<<<"<int>", 0>>>>
IsStr(page_text) == page_text # NotAStr

\* the records of sections[i..] of one page without the test of their length
PageSectionsUnfiltered(filename, page_num, sections, i, combined_keywords, keyword_weights) ==
    [k \in 1..(Len(sections) + 1 - i) |->
        [document |-> filename,
         page_number |-> page_num,
         section_index |-> i + k - 2,
         section_title |-> _extract_section_title(sections[i + k - 1]),
         section_text |-> sections[i + k - 1],
         relevance_score |-> _calculate_relevance_score(
             sections[i + k - 1], combined_keywords, keyword_weights),
         importance_rank |-> 0]]

\* the inner loop: the records of sections[i..] of one page
RECURSIVE PageSections(_, _, _, _, _, _)
PageSections(filename, page_num, sections, i, combined_keywords, keyword_weights) ==
    IF i > Len(sections) THEN <<>>
    ELSE LET section_text == sections[i]
             rest == PageSections(filename, page_num, sections, i + 1,
                                  combined_keywords, keyword_weights)
         IN IF TLen(section_text) < min_section_length THEN rest
            ELSE <<[document |-> filename,
                    page_number |-> page_num,
                    section_index |-> i - 1,
                    section_title |-> _extract_section_title(section_text),
                    section_text |-> section_text,
                    relevance_score |-> _calculate_relevance_score(
                        section_text, combined_keywords, keyword_weights),
                    importance_rank |-> 0]>> \o rest

\* the loop over the pages of one document, from page page_num
RECURSIVE DocumentSections(_, _, _, _, _)
DocumentSections(filename, pages, page_num, combined_keywords, keyword_weights) ==
    IF page_num > Len(pages) THEN <<>>
    ELSE PageSections(filename, page_num, _split_into_sections(pages[page_num]), 1,
                      combined_keywords, keyword_weights)
         \o DocumentSections(filename, pages, page_num + 1,
                             combined_keywords, keyword_weights)

\* the loop over extracted_texts.items(), from document d
RECURSIVE AllSections(_, _, _, _)
AllSections(extracted_texts, d, combined_keywords, keyword_weights) ==
    IF d > Len(extracted_texts) THEN <<>>
    ELSE DocumentSections(extracted_texts[d].filename, extracted_texts[d].pages, 1,
                          combined_keywords, keyword_weights)
         \o AllSections(extracted_texts, d + 1, combined_keywords, keyword_weights)

\* Sort keys are rationals <<numerator, denominator>>, denominator > 0.
KeyGreater(a, b) == a[1] * b[2] > b[1] * a[2]
KeyEqual(a, b) == a[1] * b[2] = b[1] * a[2]

\* a sort that is not stable: n goes before the elements of equal key
OrderWithNBeforeEqualKeys(order, n, keys) ==
    LET k == Cardinality({i \in DOMAIN order : KeyGreater(keys[order[i]], keys[n])})
    IN SubSeq(order, 1, k) \o <<n>> \o SubSeq(order, k + 1, Len(order))

\* list.sort(key=..., reverse=True) is stable, also when reversed: element
\* n goes after every earlier element whose key is greater or equal.
\* order lists the indices of the elements already placed.
InsertByKeyDesc(order, n, keys) ==
    LET k == Cardinality({i \in DOMAIN order : ~KeyGreater(keys[n], keys[order[i]])})
    IN SubSeq(order, 1, k) \o <<n>> \o SubSeq(order, k + 1, Len(order))

\* the order in which the sort leaves the first n elements
RECURSIVE SortOrder(_, _)
SortOrder(keys, n) ==
    IF n = 0 THEN <<>> ELSE InsertByKeyDesc(SortOrder(keys, n - 1), n, keys)

\* xs.sort(key=lambda x: keys[x], reverse=True)
SortDesc(xs, keys) ==
    LET order == SortOrder(keys, Len(keys))
    IN [i \in DOMAIN xs |-> xs[order[i]]]

\* key=lambda x: x['relevance_score']
RelevanceKeys(sections) == [i \in DOMAIN sections |-> <<sections[i].relevance_score, 1>>]

\* for rank, section in enumerate(all_sections, 1)
AssignRanks(all_sections) ==
    [rank \in DOMAIN all_sections |->
        [all_sections[rank] EXCEPT !.importance_rank = rank]]

\* the pages on which _split_into_sections raises
Raises(extracted_texts) ==
    \E d \in DOMAIN extracted_texts :
        \E p \in DOMAIN extracted_texts[d].pages : ~IsStr(extracted_texts[d].pages[p])

\* the ranks assigned before the sort instead of after it
RanksBeforeSort(extracted_texts, keywords) ==
    LET all_sections == AssignRanks(AllSections(extracted_texts, 1,
                            keywords.combined_keywords, keywords.keyword_weights))
    IN SortDesc(all_sections, RelevanceKeys(all_sections))

\* the list rank_sections returns when no page raises
rank_sections(extracted_texts, keywords) ==
    LET all_sections == AllSections(extracted_texts, 1, keywords.combined_keywords,
                                    keywords.keyword_weights)
    IN AssignRanks(SortDesc(all_sections, RelevanceKeys(all_sections)))

(***************************************************************************)
(* SubsectionAnalyzer (subsection_analyzer.py).  A sentence score, a       *)
(* float, is modelled by the rational <<numerator, denominator>> the       *)
(* arithmetic of _score_sentence denotes.                                  *)
(***************************************************************************)
summary_sentences == 3
\* "Filter out very short sentences"
MinSentenceLength == 20

\* the loop of _split_sentences over sentences[i..]
RECURSIVE CleanSentences(_, _)
CleanSentences(sentences, i) ==
    IF i > Len(sentences) THEN <<>>
    ELSE LET sentence == Strip(sentences[i])
         IN (IF TLen(sentence) > MinSentenceLength THEN <<sentence>> ELSE <<>>)
            \o CleanSentences(sentences, i + 1)

_split_sentences(text) == CleanSentences(SplitTerm(text), 1)

\* sum(len(keyword) for the keywords[i..] present in sentence_lower)
RECURSIVE MatchedLength(_, _, _)
MatchedLength(sentence_lower, keywords, i) ==
    IF i > Len(keywords) THEN 0
    ELSE (IF Contains(sentence_lower, Lower(keywords[i])) THEN TLen(keywords[i]) ELSE 0)
         + MatchedLength(sentence_lower, keywords, i + 1)

\* sum(1 for keyword in keywords if keyword.lower() in sentence_lower)
KeywordCount(sentence_lower, keywords) ==
    Cardinality({i \in DOMAIN keywords : Contains(sentence_lower, Lower(keywords[i]))})

\* the score without the division by len(sentence) / 100
ScoreNotNormalized(sentence, keywords) ==
    IF sentence = <<>> \/ keywords = <<>> THEN <<0, 1>>
    ELSE LET sentence_lower == Lower(sentence)
             score == MatchedLength(sentence_lower, keywords, 1)
             keyword_count == KeywordCount(sentence_lower, keywords)
         IN <<score * (IF keyword_count > 1 THEN 5 + keyword_count ELSE 5), 5>>

\* score * (1 + keyword_count * 0.2) / (len(sentence) / 100), the bonus
\* only when keyword_count > 1
_score_sentence(sentence, keywords) ==
    IF sentence = <<>> \/ keywords = <<>> THEN <<0, 1>>
    ELSE LET sentence_lower == Lower(sentence)
             score == MatchedLength(sentence_lower, keywords, 1)
             keyword_count == KeywordCount(sentence_lower, keywords)
         IN <<score * (IF keyword_count > 1 THEN 5 + keyword_count ELSE 5) * 100,
              5 * TLen(sentence)>>

\* sentence_scores: the (sentence, score) pairs in sentence order
SentenceScores(sentences, keywords) ==
    [i \in DOMAIN sentences |-> <<sentences[i], _score_sentence(sentences[i], keywords)>>]

\* key=lambda x: x[1]
ScoreKeys(sentence_scores) == [i \in DOMAIN sentence_scores |-> sentence_scores[i][2]]

\* sentence_scores.sort(reverse=True); sentence_scores[:summary_sentences]
TopSentences(sentences, keywords) ==
    LET sentence_scores == SentenceScores(sentences, keywords)
    IN Take(SortDesc(sentence_scores, ScoreKeys(sentence_scores)), summary_sentences)

\* the selected sentences left in the order of their scores
SelectionOrder(sentences, i, selected_sentences) == selected_sentences

\* [sentence for sentence in sentences[i..] if sentence in selected_sentences]
RECURSIVE OriginalOrder(_, _, _)
OriginalOrder(sentences, i, selected_sentences) ==
    IF i > Len(sentences) THEN <<>>
    ELSE (IF \E j \in DOMAIN selected_sentences : selected_sentences[j] = sentences[i]
          THEN <<sentences[i]>> ELSE <<>>)
         \o OriginalOrder(sentences, i + 1, selected_sentences)


\* original_order_sentences of _generate_extractive_summary
OriginalOrderSentences(sentences, keywords) ==
    LET top_sentences == TopSentences(sentences, keywords)
        selected_sentences == [j \in DOMAIN top_sentences |-> top_sentences[j][1]]
    IN OriginalOrder(sentences, 1, selected_sentences)

\* the summary without the return of a short text as it is
SummaryWithoutShortcut(text, keywords) ==
    IF text = <<>> THEN <<>>
    ELSE Join(OriginalOrderSentences(_split_sentences(text), keywords))

_generate_extractive_summary(text, keywords) ==
    IF text = <<>> THEN <<>>
    ELSE LET sentences == _split_sentences(text)
         IN IF Len(sentences) <= summary_sentences THEN text
            ELSE Join(OriginalOrderSentences(sentences, keywords))

(***************************************************************************)
(* KeywordAnalyzer (keyword_analyzer.py).  The tokenizer, the tagger and   *)
(* the stop-word corpus are NLTK's: the tokenizer is modelled by the       *)
(* code's own fallback r'\b\w+\b', which agrees with it on words separated *)
(* by white space, the corpus by the code's fallback set, and the tagger   *)
(* by a table.                                                             *)
(***************************************************************************)
TopKeywords == 20
\* "Remove punctuation and short words": len(token) > 2
MinTokenLength == 2

\* the fallback stop words of more than MinTokenLength characters, and the
\* domain-specific ones
stop_words ==
    {Str(<<"t","h","e">>), Str(<<"a","n","d">>), Str(<<"b","u","t">>), Str(<<"f","o","r">>), Str(<<"w","i","t","h">>)}
    \cup
    {Str(<<"u","s","i","n","g">>), Str(<<"u","s","e","d">>), Str(<<"u","s","e">>), Str(<<"m","a","k","e">>), Str(<<"g","e","t">>), Str(<<"c","o","m","e">>), Str(<<"t","a","k","e">>), Str(<<"g","i","v","e">>),
     Str(<<"w","a","n","t">>), Str(<<"n","e","e","d">>), Str(<<"l","i","k","e">>), Str(<<"k","n","o","w">>), Str(<<"t","h","i","n","k">>), Str(<<"s","e","e">>), Str(<<"l","o","o","k">>)}

\* the maximal blocks of \w characters of t, as pairs <<first run, last run>>
WordBlocks(t) ==
    LET starts == {i \in DOMAIN t : /\ Ch(t[i]) \in WordChars
                                    /\ i > 1 => Ch(t[i - 1]) \notin WordChars}
        start(k) == CHOOSE i \in starts : Cardinality({j \in starts : j <= i}) = k
    IN [k \in 1..Cardinality(starts) |->
           <<start(k), SkipClass(t, start(k), WordChars) - 1>>]

\* re.findall(r'\b\w+\b', t)
Tokens(t) ==
    LET blocks == WordBlocks(t)
    IN [k \in DOMAIN blocks |-> Runs(t, blocks[k][1], blocks[k][2])]

\* token.isalnum()
IsAlnum(token) ==
    token # <<>> /\ \A i \in DOMAIN token : Ch(token[i]) \in WordChars \ {"_"}

\* the tag pos_tag gives a token: adverbs and prepositions here, nouns otherwise
PosTag(token) ==
    IF token \in {Str(<<"v","e","r","y">>), Str(<<"q","u","i","c","k","l","y">>)} THEN "RB"
    ELSE IF token \in {Str(<<"i","n","t","o">>), Str(<<"f","r","o","m">>)} THEN "IN"
    ELSE IF token \in {Str(<<"s","t","u","d","i","e","s">>)} THEN "VBZ"
    ELSE "NN"

\* pos.startswith(('NN', 'JJ', 'VB'))
KeptTag(pos) == pos \in {"NN", "NNS", "NNP", "JJ", "JJR", "VB", "VBZ", "VBG"}

\* xs filtered by Keep, a set of the indices to keep
SelectSeq2(xs, keep) ==
    LET idx == {i \in DOMAIN xs : i \in keep}
        nth(k) == CHOOSE i \in idx : Cardinality({j \in idx : j <= i}) = k
    IN [k \in 1..Cardinality(idx) |-> xs[nth(k)]]

\* the tokens of text that pass the three filters, in text order
SingleWordKeywords(text) ==
    LET tokens == Tokens(Lower(text))
    IN SelectSeq2(tokens,
           {i \in DOMAIN tokens :
               /\ IsAlnum(tokens[i]) /\ TLen(tokens[i]) > MinTokenLength
               /\ tokens[i] \notin stop_words
               /\ KeptTag(PosTag(tokens[i]))})

IsAlpha(token) == \A i \in DOMAIN token : IsCased(Ch(token[i]))

\* the second words of the patterns r'\b\w+ learning\b', ' analysis',
\* ' discovery' and ' networks?', in pattern order
PhraseWords ==
    <<{Str(<<"l","e","a","r","n","i","n","g">>)}, {Str(<<"a","n","a","l","y","s","i","s">>)}, {Str(<<"d","i","s","c","o","v","e","r","y">>)},
      {Str(<<"n","e","t","w","o","r","k">>), Str(<<"n","e","t","w","o","r","k","s">>)}>>

\* pattern p of _extract_bigrams matches blocks b and b+1 of t: the two
\* are one space apart, and both are words of two letters or more (p = 0,
\* r'\b[A-Z][a-z]+ [A-Z][a-z]+\b' under re.IGNORECASE) or the second is a
\* phrase word of pattern p
PatternMatches(t, blocks, b, p) ==
    /\ b + 1 <= Len(blocks)
    /\ blocks[b + 1][1] = blocks[b][2] + 2
    /\ t[blocks[b][2] + 1] = <<" ", 1>>
    /\ LET w1 == Runs(t, blocks[b][1], blocks[b][2])
           w2 == Runs(t, blocks[b + 1][1], blocks[b + 1][2])
       IN IF p = 0
          THEN IsAlpha(w1) /\ IsAlpha(w2) /\ TLen(w1) >= 2 /\ TLen(w2) >= 2
          ELSE Lower(w2) \in PhraseWords[p]

\* re.findall(pattern p, text, re.IGNORECASE), lower-cased, from block b on
RECURSIVE FindAll(_, _, _, _)
FindAll(t, blocks, b, p) ==
    IF b > Len(blocks) THEN <<>>
    ELSE IF PatternMatches(t, blocks, b, p)
         THEN <<Lower(Runs(t, blocks[b][1], blocks[b + 1][2]))>>
              \o FindAll(t, blocks, b + 2, p)
         ELSE FindAll(t, blocks, b + 1, p)

\* the set _extract_bigrams makes a list of
Bigrams(text) ==
    LET blocks == WordBlocks(text)
    IN UNION {{FindAll(text, blocks, 1, p)[i] : i \in DOMAIN FindAll(text, blocks, 1, p)}
              : p \in 0..Len(PhraseWords)}

\* keywords before list(set(keywords)): the single words in text order,
\* then the bigrams
KeywordSet(text) ==
    IF text = <<>> THEN {}
    ELSE {SingleWordKeywords(text)[i] : i \in DOMAIN SingleWordKeywords(text)}
         \cup Bigrams(text)

\* the orders in which list(set(...)) can list a set: the iteration order
\* of a set of str depends on the hash seed of the run
ListsOfSet(S) ==
    {xs \in [1..Cardinality(S) -> S] : \A i, j \in DOMAIN xs : i # j => xs[i] # xs[j]}

\* the lists _extract_from_text can return
_extract_from_text(text) == ListsOfSet(KeywordSet(text))

\* Counter(all_keywords): the distinct keywords in order of first
\* occurrence, and their counts
CounterKeys(all_keywords) ==
    SelectSeq2(all_keywords,
        {i \in DOMAIN all_keywords :
            \A j \in 1..(i - 1) : all_keywords[j] # all_keywords[i]})
CounterOf(all_keywords) ==
    [k \in {all_keywords[i] : i \in DOMAIN all_keywords} |->
        Cardinality({i \in DOMAIN all_keywords : all_keywords[i] = k})]

\* [word for word, count in keyword_weights.most_common(n)]
MostCommon(all_keywords, n) ==
    LET keys == CounterKeys(all_keywords)
        counts == CounterOf(all_keywords)
    IN Take(SortDesc(keys, [i \in DOMAIN keys |-> <<counts[keys[i]], 1>>]), n)

\* the record extract_keywords returns, given what _extract_from_text
\* returned for the persona and for the job
extract_keywords(persona_keywords, job_keywords) ==
    LET all_keywords == persona_keywords \o job_keywords
    IN [persona_keywords |-> persona_keywords,
        job_keywords |-> job_keywords,
        combined_keywords |-> MostCommon(all_keywords, TopKeywords),
        keyword_weights |-> CounterOf(all_keywords)]

(***************************************************************************)
(* SubsectionAnalyzer.analyze_subsections and the pipeline (main.py).      *)
(***************************************************************************)
\* "Top 10 sections"
TopSections == 10

\* the records in reverse order
SummariesReversed(top_sections, keywords) ==
    [i \in DOMAIN top_sections |->
        LET section == top_sections[Len(top_sections) + 1 - i]
        IN [document |-> section.document,
            page_number |-> section.page_number,
            section_title |-> section.section_title,
            importance_rank |-> section.importance_rank,
            refined_text |-> _generate_extractive_summary(
                section.section_text, keywords.combined_keywords)]]

analyze_subsections(top_sections, keywords) ==
    [i \in DOMAIN top_sections |->
        [document |-> top_sections[i].document,
         page_number |-> top_sections[i].page_number,
         section_title |-> top_sections[i].section_title,
         importance_rank |-> top_sections[i].importance_rank,
         refined_text |-> _generate_extractive_summary(
             top_sections[i].section_text, keywords.combined_keywords)]]

(***************************************************************************)
(* State.                                                                  *)
(***************************************************************************)
VARIABLES
    pc,                      \* where the run is
    persona,                 \* process_documents' arguments ...
    job_to_be_done,
    extracted_texts,         \* ... and the dict handed to rank_sections
    keywords,                \* the record extract_keywords returned
    ranked_sections,         \* the list rank_sections returned
    subsection_summaries,    \* the list analyze_subsections returned
    page_text,               \* _split_into_sections' argument
    sections,                \* and result
    section_text,            \* the text scored or summarized
    relevance_score,         \* _calculate_relevance_score's result
    sentences,               \* locals of _generate_extractive_summary
    top_sentences,
    original_order_sentences,
    refined_text             \* and its result

vars == <<pc, persona, job_to_be_done, extracted_texts, keywords, ranked_sections,
          subsection_summaries, page_text, sections, section_text, relevance_score,
          sentences, top_sentences, original_order_sentences, refined_text>>

pipelineVars == <<persona, job_to_be_done, extracted_texts, keywords, ranked_sections,
                  subsection_summaries>>
segmentVars == <<page_text, sections>>
scoreVars == <<section_text, relevance_score>>
summaryVars == <<sentences, top_sentences, original_order_sentences, refined_text>>

NoKeywords == extract_keywords(<<>>, <<>>)

(***************************************************************************)
(* The pipeline: process_documents from extract_all's result on.           *)
(***************************************************************************)
MaxDocs == 2

Personas == {<<>>, Str(<<"N","e","u","r","a","l"," ","r","e","s","e","a","r","c","h","e","r">>)}
Jobs == {<<>>, Str(<<"n","e","u","r","a","l"," ","d","a","t","a">>)}

\* Pages: two headed sections; one section below min_section_length; one
\* section with a keyword; one without; the same keyword in a longer
\* section; a value that is no str; more sections than the page cap.
HeadedPage ==
    CatAll(<<Str(<<"1","."," ","I","n","t","r","o">>), Rep("\n", 2), Str(<<"n","e","u","r","a","l"," ">>), Rep("x", 120), Rep("\n", 2),
             Str(<<"M","E","T","H","O","D","S">>), Rep("\n", 2), Str(<<"d","a","t","a"," ">>), Rep("y", 130)>>)
ShortPage == Rep("x", 50)
KeywordPage == Cat(Str(<<"n","e","u","r","a","l"," ">>), Rep("z", 150))
PlainPage == Rep("w", 200)
LongKeywordPage == CatAll(<<Rep("v", 300), Str(<<" ","d","a","t","a"," ">>), Rep("v", 300)>>)

\* six headed sections, the fourth below min_section_length
ManySectionsPage ==
    CatAll(<<Str(<<"I","n","t","r","o">>), Rep("\n", 2), Str(<<"n","e","u","r","a","l"," ">>), Rep("a", 100), Rep("\n", 2),
             Str(<<"M","E","T","H","O","D","S">>), Rep("\n", 2), Str(<<"d","a","t","a"," ">>), Rep("b", 140), Rep("\n", 2),
             Str(<<"1","."," ","R","e","s","u","l","t","s">>), Rep("\n", 2), Rep("c", 160), Rep("\n", 2),
             Str(<<"N","o","t","e","s">>), Rep("\n", 2), Rep("d", 20), Rep("\n", 2),
             Str(<<"2",".","1"," ","D","a","t","a">>), Rep("\n", 2), Str(<<"n","e","u","r","a","l"," ">>), Rep("e", 200), Rep("\n", 2),
             Str(<<"S","u","m","m","a","r","y">>), Rep("\n", 2), Rep("f", 150)>>)

PageLists ==
    {<<HeadedPage>>, <<KeywordPage, ShortPage>>, <<PlainPage, KeywordPage>>,
     <<LongKeywordPage>>, <<NotAStr>>,
     <<ManySectionsPage, ManySectionsPage, ManySectionsPage>>}

FileNames == <<"a.pdf", "b.pdf", "c.pdf">>

DocumentSets ==
    UNION {{[d \in 1..n |-> [filename |-> FileNames[d], pages |-> ps[d]]]
            : ps \in [1..n -> PageLists]} : n \in 0..MaxDocs}

\* nothing segmented, scored or summarized yet
NoResults ==
    /\ sections = <<>>
    /\ relevance_score = 0
    /\ sentences = <<>> /\ top_sentences = <<>>
    /\ original_order_sentences = <<>> /\ refined_text = <<>>

\* no pipeline run
NoPipeline ==
    /\ persona = <<>> /\ job_to_be_done = <<>> /\ extracted_texts = <<>>
    /\ ranked_sections = <<>> /\ subsection_summaries = <<>>

Init ==
    /\ pc = "start"
    /\ persona \in Personas
    /\ job_to_be_done \in Jobs
    /\ extracted_texts \in DocumentSets
    /\ keywords = NoKeywords
    /\ ranked_sections = <<>>
    /\ subsection_summaries = <<>>
    /\ page_text = <<>> /\ section_text = <<>>
    /\ NoResults

\* Step 2: keywords = extract_keywords(persona, job_to_be_done)
ExtractKeywords ==
    /\ pc = "start"
    /\ \E persona_keywords \in _extract_from_text(persona) :
       \E job_keywords \in _extract_from_text(job_to_be_done) :
           keywords' = extract_keywords(persona_keywords, job_keywords)
    /\ pc' = "keywords"
    /\ UNCHANGED <<persona, job_to_be_done, extracted_texts, ranked_sections,
                   subsection_summaries, segmentVars, scoreVars, summaryVars>>

\* Step 3: ranked_sections = rank_sections(extracted_texts, keywords)
RankSections ==
    /\ pc = "keywords"
    /\ ~Raises(extracted_texts)
    /\ ranked_sections' = rank_sections(extracted_texts, keywords)
    /\ pc' = "ranked"
    /\ UNCHANGED <<persona, job_to_be_done, extracted_texts, keywords,
                   subsection_summaries, segmentVars, scoreVars, summaryVars>>

\* Step 3 when a page is no str: re.split raises in _split_into_sections,
\* nothing catches it, and process_documents ends with the exception
RankSectionsRaises ==
    /\ pc = "keywords"
    /\ Raises(extracted_texts)
    /\ pc' = "raised"
    /\ UNCHANGED <<pipelineVars, segmentVars, scoreVars, summaryVars>>

\* Step 4: analyze_subsections(ranked_sections[:10], keywords)
AnalyzeSubsections ==
    /\ pc = "ranked"
    /\ subsection_summaries' =
           analyze_subsections(Take(ranked_sections, TopSections), keywords)
    /\ pc' = "done"
    /\ UNCHANGED <<persona, job_to_be_done, extracted_texts, keywords, ranked_sections,
                   segmentVars, scoreVars, summaryVars>>

Next == ExtractKeywords \/ RankSections \/ RankSectionsRaises \/ AnalyzeSubsections

Spec == Init /\ [][Next]_vars

(***************************************************************************)
(* _split_into_sections on its own, for every page made of a few pieces.   *)
(***************************************************************************)
MaxPagePieces == 3

\* two headers, a blank line, white space, a sentence, a body, and a run
\* of white space with two newlines in it
\* three headed sections
ThreeHeaded ==
    CatAll(<<Str(<<"I","n","t","r","o">>), Rep("\n", 2), Rep("a", 100), Rep("\n", 2),
             Str(<<"M","E","T","H","O","D","S">>), Rep("\n", 2), Rep("b", 140), Rep("\n", 2),
             Str(<<"1","."," ","R","e","s","u","l","t","s">>), Rep("\n", 2), Rep("c", 160), Rep("\n", 2)>>)

\* a header with a number in two parts, and its body
SubNumberedSection ==
    CatAll(<<Str(<<"1",".","1"," ","D","a","t","a"," ","i","n","f","o">>), Rep("\n", 2), Rep("e", 110), Rep("\n", 2)>>)

\* a numbered header and its body
NumberedSection ==
    CatAll(<<Str(<<"2","."," ","M","e","t","h","o","d","s">>), Rep("\n", 2), Rep("f", 130), Rep("\n", 2)>>)

\* three sentences, any two of them longer than target_length
ThreeSentences ==
    CatAll(<<Rep("s", 450), Str(<<"."," ">>), Rep("t", 460), Str(<<"!"," ">>), Rep("u", 470), Str(<<"?"," ">>)>>)

\* a text without a sentence end, longer than FallbackLength
LongBody == Rep("z", 1100)

PagePieces ==
    {Str(<<"1","."," ","I","n","t","r","o">>), Str(<<"M","E","T","H","O","D","S">>), Rep("\n", 2), Rep(" ", 600),
     Cat(Rep("x", 450), Str(<<"."," ">>)), Rep("y", 120), Str(<<" ","\n"," ","\n"," ">>),
     ThreeHeaded, SubNumberedSection, NumberedSection, ThreeSentences, LongBody}

\* the concatenations of at most n texts of a set
TextsOf(pieces, n) ==
    UNION {{CatAll(ps) : ps \in [1..k -> pieces]} : k \in 0..n}

InitSegment ==
    /\ pc = "start"
    /\ page_text \in TextsOf(PagePieces, MaxPagePieces)
    /\ keywords = NoKeywords
    /\ section_text = <<>>
    /\ NoPipeline /\ NoResults

SplitIntoSections ==
    /\ pc = "start"
    /\ sections' = _split_into_sections(page_text)
    /\ pc' = "done"
    /\ UNCHANGED <<pipelineVars, page_text, scoreVars, summaryVars>>

SpecSegment == InitSegment /\ [][SplitIntoSections]_vars

(***************************************************************************)
(* _calculate_relevance_score on its own.                                  *)
(***************************************************************************)
MaxScorePieces == 4

DrugDiscovery == Str(<<"d","r","u","g"," ","d","i","s","c","o","v","e","r","y">>)
Neural == Str(<<"n","e","u","r","a","l">>)

ScorePieces ==
    {Rep("x", 1920), Cat(DrugDiscovery, Rep(" ", 1)), Cat(Neural, Rep("y", 44)),
     Str(<<"N","e","u","r","a","l"," ">>), Rep("z", 100)}

\* keyword records: none; the weights of the documented example; a keyword
\* without a weight; a keyword in capitals
ScoreKeywords ==
    {NoKeywords,
     [NoKeywords EXCEPT !.combined_keywords = <<DrugDiscovery, Neural>>,
                        !.keyword_weights = (DrugDiscovery :> 3) @@ (Neural :> 1)],
     [NoKeywords EXCEPT !.combined_keywords = <<Neural, DrugDiscovery>>,
                        !.keyword_weights = (Neural :> 2)],
     [NoKeywords EXCEPT !.combined_keywords = <<Str(<<"N","E","U","R","A","L">>), DrugDiscovery>>,
                        !.keyword_weights = (Str(<<"N","E","U","R","A","L">>) :> 1) @@ (DrugDiscovery :> 1)]}

InitScore ==
    /\ pc = "start"
    /\ section_text \in TextsOf(ScorePieces, MaxScorePieces)
    /\ keywords \in ScoreKeywords
    /\ page_text = <<>>
    /\ NoPipeline /\ NoResults

CalculateRelevanceScore ==
    /\ pc = "start"
    /\ relevance_score' = _calculate_relevance_score(
           section_text, keywords.combined_keywords, keywords.keyword_weights)
    /\ pc' = "done"
    /\ UNCHANGED <<pipelineVars, segmentVars, section_text, summaryVars>>

SpecScore == InitScore /\ [][CalculateRelevanceScore]_vars

(***************************************************************************)
(* _generate_extractive_summary on its own.                                *)
(***************************************************************************)
MaxSentences == 4

Data == Str(<<"d","a","t","a">>)

\* sentences with their terminators: a long one with a keyword, a short
\* one with another, one without keywords, one with two keywords, and a
\* fragment too short to count as a sentence
SentencePieces ==
    {CatAll(<<Neural, Rep("w", 200), Str(<<"."," ">>)>>),
     CatAll(<<Data, Rep(" ", 1), Rep("q", 17), Str(<<"!"," ">>)>>),
     Cat(Rep("y", 30), Str(<<"?","\n">>)),
     CatAll(<<Str(<<"D","r","u","g"," ","D","i","s","c","o","v","e","r","y">>), Rep(" ", 1), Neural, Rep(" ", 1), Rep("v", 10), Str(<<".",".","."," "," ">>)>>),
     Str(<<"s","h","o","r","t","."," ">>)}

SummaryKeywords ==
    {NoKeywords,
     extract_keywords(<<Neural, Data>>, <<>>),
     extract_keywords(<<DrugDiscovery, Neural, Data>>, <<>>)}

InitSummary ==
    /\ pc = "start"
    /\ section_text \in TextsOf(SentencePieces, MaxSentences)
    /\ keywords \in SummaryKeywords
    /\ page_text = <<>>
    /\ NoPipeline /\ NoResults

\* the locals and the result of _generate_extractive_summary(section_text,
\* combined_keywords); a local the call does not reach stays empty
GenerateExtractiveSummary ==
    /\ pc = "start"
    /\ LET summarized == /\ section_text # <<>>
                         /\ Len(_split_sentences(section_text)) > summary_sentences
       IN /\ sentences' = IF section_text = <<>> THEN <<>>
                          ELSE _split_sentences(section_text)
          /\ top_sentences' =
                 IF summarized
                 THEN TopSentences(_split_sentences(section_text),
                                   keywords.combined_keywords)
                 ELSE <<>>
          /\ original_order_sentences' =
                 IF summarized
                 THEN OriginalOrderSentences(_split_sentences(section_text),
                                             keywords.combined_keywords)
                 ELSE <<>>
    /\ refined_text' =
           _generate_extractive_summary(section_text, keywords.combined_keywords)
    /\ pc' = "done"
    /\ UNCHANGED <<pipelineVars, segmentVars, section_text, relevance_score>>

SpecSummary == InitSummary /\ [][GenerateExtractiveSummary]_vars

(***************************************************************************)
(* Properties of the ranking (section_ranker.py), checked on the pipeline. *)
(***************************************************************************)
Ranked == pc \in {"ranked", "done"}

\* the number of sections of a page that reach min_section_length
QualifyingOnPage(page) ==
    LET secs == _split_into_sections(page)
    IN Cardinality({i \in DOMAIN secs : TLen(secs[i]) >= min_section_length})

QualifyingInDocument(doc) ==
    SumSeq([p \in DOMAIN doc.pages |-> QualifyingOnPage(doc.pages[p])], 1, Len(doc.pages))

QualifyingCount(docs) ==
    SumSeq([d \in DOMAIN docs |-> QualifyingInDocument(docs[d])], 1, Len(docs))

\* the place of a document in extracted_texts
DocumentIndex(filename) ==
    CHOOSE d \in DOMAIN extracted_texts : extracted_texts[d].filename = filename

\* section a was discovered before section b: document insertion order,
\* then page number, then in-page section index
DiscoveredBefore(a, b) ==
    LET da == DocumentIndex(a.document)
        db == DocumentIndex(b.document)
    IN \/ da < db
       \/ da = db /\ a.page_number < b.page_number
       \/ da = db /\ a.page_number = b.page_number /\ a.section_index < b.section_index

\* C1: the importance_rank values of the list rank_sections returns are
\* exactly 1..N in list order, N being the number of segmented sections of
\* at least 100 characters.
C1_RanksAreOneToN ==
    Ranked =>
        /\ Len(ranked_sections) = QualifyingCount(extracted_texts)
        /\ \A i \in DOMAIN ranked_sections : ranked_sections[i].importance_rank = i

\* C1's case: three sections or more are ranked, a shorter section was
\* dropped, and the sort moved a section ahead of one discovered earlier.
C1_Witness ==
    /\ pc = "ranked"
    /\ Len(ranked_sections) >= 3
    /\ \E d \in DOMAIN extracted_texts : \E p \in DOMAIN extracted_texts[d].pages :
           Len(_split_into_sections(extracted_texts[d].pages[p]))
               > QualifyingOnPage(extracted_texts[d].pages[p])
    /\ \E i, j \in DOMAIN ranked_sections :
           i < j /\ DiscoveredBefore(ranked_sections[j], ranked_sections[i])
    /\ \A i \in DOMAIN ranked_sections : ranked_sections[i].importance_rank = i

\* C2: the ranked list is ordered by non-increasing relevance_score, and
\* sections of equal score appear in discovery order.
C2_SortedByScoreStable ==
    Ranked =>
        \A i, j \in DOMAIN ranked_sections :
            i < j =>
                /\ ranked_sections[i].relevance_score >= ranked_sections[j].relevance_score
                /\ ranked_sections[i].relevance_score = ranked_sections[j].relevance_score
                      => DiscoveredBefore(ranked_sections[i], ranked_sections[j])

\* C2's case: two sections with one score, above zero, ranked in discovery
\* order ahead of a section of lower score that was discovered before them.
C2_Witness ==
    /\ pc = "ranked"
    /\ \E i, j, k \in DOMAIN ranked_sections :
           /\ i < j /\ j < k
           /\ ranked_sections[i].relevance_score = ranked_sections[j].relevance_score
           /\ ranked_sections[i].relevance_score > 0
           /\ DiscoveredBefore(ranked_sections[i], ranked_sections[j])
           /\ ranked_sections[k].relevance_score < ranked_sections[j].relevance_score
           /\ DiscoveredBefore(ranked_sections[k], ranked_sections[i])

\* a page of the document raises
FailsInDocument(doc) == \E p \in DOMAIN doc.pages : ~IsStr(doc.pages[p])

C10_EmptyPersonaAndTask ==
    (persona = <<>> /\ job_to_be_done = <<>> /\ pc # "start") =>
        /\ DOMAIN keywords.keyword_weights = {}
        /\ keywords.combined_keywords = <<>>
        /\ pc = "raised" => Raises(extracted_texts)
        /\ Ranked => \A i \in DOMAIN ranked_sections :
                         ranked_sections[i].relevance_score = 0

\* C10's case: empty persona and task, and three ranked sections or more,
\* among them one that holds a keyword of the other personas.
C10_Witness ==
    /\ persona = <<>> /\ job_to_be_done = <<>>
    /\ pc = "ranked"
    /\ Len(ranked_sections) >= 3
    /\ \E i \in DOMAIN ranked_sections :
           Contains(ranked_sections[i].section_text, Neural)
    /\ \A i \in DOMAIN ranked_sections : ranked_sections[i].relevance_score = 0

(***************************************************************************)
(* Properties of extract_keywords (keyword_analyzer.py), on the pipeline.  *)
(***************************************************************************)
\* str.find(k): the offset of the first occurrence of k in t, -1 if none
Find(t, k) ==
    IF k = <<>> THEN 0
    ELSE IF Len(k) = 1
    THEN LET js == {j \in DOMAIN t : Ch(t[j]) = Ch(k[1]) /\ Cnt(t[j]) >= Cnt(k[1])}
         IN IF js = {} THEN -1 ELSE RunStart(t, Min(js))
    ELSE LET js == {j \in DOMAIN t : OccursAtRun(t, k, j)}
         IN IF js = {} THEN -1 ELSE OccStart(t, k, Min(js))

\* the source a keyword is first met in: 1 the persona, 2 the job
SourceOf(k) == IF k \in KeywordSet(persona) THEN 1 ELSE 2
SourceText(n) == IF n = 1 THEN persona ELSE job_to_be_done

\* keyword a is met before keyword b: persona keywords before job
\* keywords, and within one source in the order of their first occurrence
FirstEncounteredBefore(a, b) ==
    \/ SourceOf(a) < SourceOf(b)
    \/ /\ SourceOf(a) = SourceOf(b)
       /\ Find(Lower(SourceText(SourceOf(a))), a) <= Find(Lower(SourceText(SourceOf(a))), b)

\* C5: combined_keywords holds at most 20 keywords, by descending weight,
\* keywords of equal weight in first-encountered order: persona keywords
\* before task keywords, and within one source in the order in which they
\* occur in that source.
C5_RankedKeywordOrder ==
    pc # "start" =>
        LET ck == keywords.combined_keywords
            w == keywords.keyword_weights
        IN /\ Len(ck) <= TopKeywords
           /\ \A i, j \in DOMAIN ck :
                 i < j =>
                     /\ w[ck[i]] >= w[ck[j]]
                     /\ w[ck[i]] = w[ck[j]] => FirstEncounteredBefore(ck[i], ck[j])

(***************************************************************************)
(* Properties of _split_into_sections, checked on SpecSegment.             *)
(***************************************************************************)
IsWhitespaceOnly(t) == \A i \in DOMAIN t : IsSpace(Ch(t[i]))

\* C8: _split_into_sections returns no section for a page text that is
\* empty or all white space, whatever its length.
C8_WhitespaceYieldsNoSection ==
    (pc = "done" /\ IsWhitespaceOnly(page_text)) => sections = <<>>

(***************************************************************************)
(* Properties of _calculate_relevance_score, checked on SpecScore.         *)
(***************************************************************************)
\* the sum over the keywords of occurrences * weight * length
ClaimedTotal(text, kws, weights) ==
    SumSeq([i \in DOMAIN kws |->
               Count(Lower(text), Lower(kws[i])) * Get(weights, kws[i]) * TLen(kws[i])],
           1, Len(kws))

Abs(n) == IF n < 0 THEN -n ELSE n

\* the section of the documented example: 2000 characters, "drug
\* discovery" twice and "neural" once
ExampleSection ==
    CatAll(<<Rep("x", 1920), DrugDiscovery, Rep(" ", 1), DrugDiscovery, Rep(" ", 1),
             Neural, Rep("y", 44)>>)
ExampleKeywords ==
    [NoKeywords EXCEPT !.combined_keywords = <<DrugDiscovery, Neural>>,
                       !.keyword_weights = (DrugDiscovery :> 3) @@ (Neural :> 1)]

\* C6: the score of a non-empty section against a non-empty keyword list
\* is the sum of occurrences * weight * keyword length over the keywords,
\* divided by (section length / 1000) and rounded to 3 decimals (so no
\* thousandth is nearer to the quotient); the example scores 45.0.
C6_ScoreFormula ==
    (pc = "done" /\ section_text # <<>> /\ keywords.combined_keywords # <<>>) =>
        LET total == ClaimedTotal(section_text, keywords.combined_keywords,
                                  keywords.keyword_weights)
            length == TLen(section_text)
        IN /\ 2 * Abs(relevance_score * length - total * 1000000) <= length
           /\ (section_text = ExampleSection /\ keywords = ExampleKeywords)
                  => relevance_score = 45000

\* C6's case: the example has been scored.
C6_Witness ==
    /\ pc = "done"
    /\ section_text = ExampleSection /\ TLen(section_text) = 2000
    /\ keywords = ExampleKeywords
    /\ Count(Lower(section_text), DrugDiscovery) = 2
    /\ Count(Lower(section_text), Neural) = 1
    /\ relevance_score = 45000

(***************************************************************************)
(* Properties of _generate_extractive_summary, checked on SpecSummary.     *)
(***************************************************************************)
Summarized == pc = "done" /\ Len(sentences) > summary_sentences

\* the keywords present in a sentence as case-insensitive substrings
MatchedKeywords(sentence, kws) ==
    {i \in DOMAIN kws : Contains(Lower(sentence), Lower(kws[i]))}

\* the sum of the lengths of the matched keywords, times
\* 1 + 0.2 * matchedKeywordCount when more than one is matched
ClaimedSentenceScore(sentence, kws) ==
    LET m == MatchedKeywords(sentence, kws)
        total == SumSeq([i \in DOMAIN kws |-> IF i \in m THEN TLen(kws[i]) ELSE 0],
                        1, Len(kws))
    IN <<total * (IF Cardinality(m) > 1 THEN 5 + Cardinality(m) ELSE 5), 5>>

\* that score per 100 characters of the sentence
NormalizedSentenceScore(sentence, kws) ==
    LET c == ClaimedSentenceScore(sentence, kws)
    IN <<c[1] * 100, c[2] * TLen(sentence)>>

\* T holds the 3 sentences of highest score, by the claimed score or by
\* the normalized one, sentences of equal score preferred in text order
IsTopThree(T, normalized) ==
    LET score(i) == IF normalized
                    THEN NormalizedSentenceScore(sentences[i], keywords.combined_keywords)
                    ELSE ClaimedSentenceScore(sentences[i], keywords.combined_keywords)
    IN /\ Cardinality(T) = 3
       /\ \A i \in T : \A j \in DOMAIN sentences \ T :
              \/ KeyGreater(score(i), score(j))
              \/ KeyEqual(score(i), score(j)) /\ i < j

\* top_sentences holds the sentences of T, each once
SelectedAre(T) ==
    /\ Len(top_sentences) = Cardinality(T)
    /\ \E f \in [DOMAIN top_sentences -> T] :
           /\ \A a, b \in DOMAIN top_sentences : a # b => f[a] # f[b]
           /\ \A a \in DOMAIN top_sentences : top_sentences[a][1] = sentences[f[a]]

\* C3 as stated: of more than 3 sentences, the 3 selected are those of the
\* highest score, the score being the sum of the lengths of the keywords
\* present, times 1 + 0.2 * matchedKeywordCount when more than one is
\* present; equal scores in sentence order.
C3_SelectedByClaimedScore ==
    Summarized =>
        \E T \in SUBSET DOMAIN sentences : IsTopThree(T, FALSE) /\ SelectedAre(T)

\* C3 amended: the same with the score divided by len(sentence) / 100.
C3_SelectedByNormalizedScore ==
    Summarized =>
        \E T \in SUBSET DOMAIN sentences : IsTopThree(T, TRUE) /\ SelectedAre(T)

\* C3's case: of more than 3 sentences a sentence with two keywords is
\* selected, and one selected has a lower claimed score than one left out.
C3_Witness ==
    /\ Summarized
    /\ \E T \in SUBSET DOMAIN sentences :
           /\ IsTopThree(T, TRUE) /\ SelectedAre(T)
           /\ \E i \in T :
                  Cardinality(MatchedKeywords(sentences[i], keywords.combined_keywords)) > 1
           /\ \E i \in T : \E j \in DOMAIN sentences \ T :
                  KeyGreater(ClaimedSentenceScore(sentences[j], keywords.combined_keywords),
                             ClaimedSentenceScore(sentences[i], keywords.combined_keywords))

\* the last sentence of the section scores higher than every other
LastScoresHighest ==
    LET n == Len(sentences)
    IN \A i \in 1..(n - 1) :
           KeyGreater(_score_sentence(sentences[n], keywords.combined_keywords),
                      _score_sentence(sentences[i], keywords.combined_keywords))

\* C4: the sentences of a summary are in the order they have in the
\* section text, whatever their scores; the highest-scoring sentence, when
\* last in the section, is last in the summary.
C4_SummaryKeepsTextOrder ==
    Summarized =>
        /\ \E T \in SUBSET DOMAIN sentences :
               original_order_sentences = SelectSeq2(sentences, T)
        /\ \A a \in DOMAIN top_sentences :
               \E b \in DOMAIN original_order_sentences :
                   original_order_sentences[b] = top_sentences[a][1]
        /\ refined_text = Join(original_order_sentences)
        /\ LastScoresHighest =>
               original_order_sentences[Len(original_order_sentences)]
                   = sentences[Len(sentences)]

\* C4's case: the last sentence scores highest, is selected first, and is
\* last in the summary.
C4_Witness ==
    /\ Summarized
    /\ LastScoresHighest
    /\ top_sentences[1][1] = sentences[Len(sentences)]
    /\ top_sentences[1][1] # top_sentences[2][1]
    /\ original_order_sentences[Len(original_order_sentences)] = sentences[Len(sentences)]
    /\ original_order_sentences[1] # sentences[Len(sentences)]

\* C9: a text of at most 3 sentences is returned as it is.
C9_ShortTextUnchanged ==
    (pc = "done" /\ Len(_split_sentences(section_text)) <= summary_sentences) =>
        refined_text = section_text

\* C9's case: a text of 3 sentences and a shorter fragment that is not the
\* sentences joined by spaces.
C9_Witness ==
    /\ pc = "done"
    /\ Len(sentences) = summary_sentences
    /\ Len(SplitTerm(section_text)) > summary_sentences + 1
    /\ section_text # Join(sentences)
    /\ refined_text = section_text

(***************************************************************************)
(* Properties of the summaries of the pipeline.                            *)
(***************************************************************************)
\* C11: the pipeline gives one summary record per section among the first
\* min(10, N) ranked sections and none beyond; the i-th record carries the
\* document, page number, title and importance_rank i of the i-th ranked
\* section.
C11_OneSummaryPerTopSection ==
    pc = "done" =>
        /\ Len(subsection_summaries) = Min({TopSections, Len(ranked_sections)})
        /\ \A i \in DOMAIN subsection_summaries :
               /\ subsection_summaries[i].document = ranked_sections[i].document
               /\ subsection_summaries[i].page_number = ranked_sections[i].page_number
               /\ subsection_summaries[i].section_title = ranked_sections[i].section_title
               /\ subsection_summaries[i].importance_rank = i

\* C11's case: more than 10 sections ranked, from two documents, 10 summarized.
C11_Witness ==
    /\ pc = "done"
    /\ Len(ranked_sections) > TopSections
    /\ Len(subsection_summaries) = TopSections
    /\ \E i, j \in DOMAIN subsection_summaries :
           subsection_summaries[i].document # subsection_summaries[j].document

\* C12: no section of fewer than 100 characters is in the list
\* rank_sections returns.
C12_NoShortSectionRanked ==
    Ranked => \A i \in DOMAIN ranked_sections :
                  TLen(ranked_sections[i].section_text) >= min_section_length

\* C12's case: a page was segmented into sections of which one is short,
\* and the others of the page are ranked.
C12_Witness ==
    /\ Ranked
    /\ \E d \in DOMAIN extracted_texts : \E p \in DOMAIN extracted_texts[d].pages :
           LET secs == _split_into_sections(extracted_texts[d].pages[p])
           IN /\ \E k \in DOMAIN secs : TLen(secs[k]) < min_section_length
              /\ \E k \in DOMAIN secs : \E i \in DOMAIN ranked_sections :
                     /\ ranked_sections[i].section_text = secs[k]
                     /\ ranked_sections[i].page_number = p
                     /\ ranked_sections[i].section_index = k - 1

(***************************************************************************)
(* Properties of the two paths of _split_into_sections, on SpecSegment.    *)
(***************************************************************************)
\* the sections the accumulation over the paragraphs yields
HeaderPathSections(page) == AccumulateSections(SplitBlank(page), 1, <<>>, <<>>)

\* the page goes to the split by length
FallbackTaken(page) ==
    /\ page # <<>>
    /\ Len(HeaderPathSections(page)) <= 1
    /\ TLen(page) > FallbackLength

\* the sections of a page before the cap
UncappedSections(page) ==
    IF page = <<>> THEN <<>>
    ELSE IF FallbackTaken(page) THEN _split_by_length(page)
    ELSE HeaderPathSections(page)

\* C13: _split_into_sections returns at most 5 sections, on the header
\* path and on the fallback path, and they are the first 5 in page order.
C13_AtMostFiveFirstSections ==
    pc = "done" =>
        LET all == UncappedSections(page_text)
        IN /\ Len(sections) <= 5
           /\ Len(sections) = Min({5, Len(all)})
           /\ \A k \in DOMAIN sections : sections[k] = all[k]

\* C13's case: the header path found more than 5 sections, all different
\* from the sixth, and 5 are returned.
C13_Witness ==
    /\ pc = "done"
    /\ ~FallbackTaken(page_text)
    /\ Len(UncappedSections(page_text)) > 5
    /\ Len(sections) = 5
    /\ \A k \in DOMAIN sections : sections[k] # UncappedSections(page_text)[6]

\* C14: a page of more than 1000 characters on which the accumulation
\* yields at most one section is returned as at least two sections.
C14_LongPageIsSubdivided ==
    (pc = "done" /\ TLen(page_text) > 1000 /\ Len(HeaderPathSections(page_text)) <= 1)
        => Len(sections) >= 2

\* the non-empty paragraphs of a text, stripped, in order
Paragraphs(t) ==
    LET ps == SplitBlank(t)
        stripped == [k \in DOMAIN ps |-> Strip(ps[k])]
    IN SelectSeq2(stripped, {k \in DOMAIN ps : stripped[k] # <<>>})

\* the sequences seqs[i..] one after the other
RECURSIVE Flatten(_, _)
Flatten(seqs, i) == IF i > Len(seqs) THEN <<>> ELSE seqs[i] \o Flatten(seqs, i + 1)

\* the accumulation of the page is the result, but for the cap
OnHeaderPath ==
    /\ pc = "done"
    /\ ~FallbackTaken(page_text)
    /\ sections = Take(HeaderPathSections(page_text), 5)

\* a new section starts exactly at each header paragraph, and the
\* paragraphs of the page are those of the sections, in order
SectionsStartAtHeaders ==
    LET secs == HeaderPathSections(page_text)
        parts == [k \in DOMAIN secs |-> Paragraphs(secs[k])]
    IN /\ Flatten(parts, 1) = Paragraphs(page_text)
       /\ \A k \in DOMAIN secs :
              /\ parts[k] # <<>>
              /\ k > 1 => _is_section_header(parts[k][1])
              /\ \A j \in DOMAIN parts[k] : j > 1 => ~_is_section_header(parts[k][j])

\* the page is a header, a body, a header and a body
HeaderBodyTwice ==
    LET paras == Paragraphs(page_text)
    IN /\ Len(paras) = 4
       /\ _is_section_header(paras[1]) /\ ~_is_section_header(paras[2])
       /\ _is_section_header(paras[3]) /\ ~_is_section_header(paras[4])

\* C16: on the header path, before the cap, a new section starts exactly
\* at each header paragraph and all non-empty paragraphs appear once, in
\* order; a page header, body, header, body gives two sections titled by
\* their headers.
C16_SectionsByHeadersWithTitles ==
    OnHeaderPath =>
        /\ SectionsStartAtHeaders
        /\ HeaderBodyTwice =>
               /\ Len(sections) = 2
               /\ _extract_section_title(sections[1]) = Paragraphs(page_text)[1]
               /\ _extract_section_title(sections[2]) = Paragraphs(page_text)[3]

(***************************************************************************)
(* The number of sentences of a summary, on SpecSummary.                   *)
(***************************************************************************)
\* C15: the summary of a text of more than 3 sentences is exactly 3
\* sentences of the text joined by single spaces, also when a sentence
\* text occurs more than once.
C15_SummaryIsThreeSentences ==
    Summarized =>
        /\ Len(original_order_sentences) = 3
        /\ \E T \in SUBSET DOMAIN sentences :
               /\ Cardinality(T) = 3
               /\ original_order_sentences = SelectSeq2(sentences, T)
        /\ refined_text = Join(original_order_sentences)

====
